---- MODULE Spec2Model ----
(***************************************************************************)
(* A model of the chess engine: ChessGame (state machine, move generator,  *)
(* legality filter), utils (board helpers) and ChessAI (search).           *)
(*                                                                         *)
(* Objects that the TypeScript code shares by reference are modelled as a  *)
(* heap: every Piece object has an identity (the index of the square it    *)
(* was created on by createInitialBoard), its mutable `type` lives in      *)
(* heap.type, and the two castling-rights objects live in the heap too.    *)
(* A board is a grid of piece identities, so copyBoard (a copy of the      *)
(* rows, not of the pieces) is a copy of the grid that still refers to the *)
(* same pieces.                                                            *)
(***************************************************************************)
EXTENDS Integers, Sequences, FiniteSets, TLC

VARIABLES
    state,    \* ChessGame.state: the fields a GameState holds by value
    heap,     \* the objects a GameState holds by reference
    ret,      \* what the last makeMove returned to its caller
    op,       \* the last operation called
    aiMove,   \* what the last getBestMove returned to its caller
    snapshot, \* an object getGameState returned, kept by its caller
    stack,    \* the calls of a running search that have not returned
    app       \* App: its React state and the timers it has set

vars == <<state, heap, ret, op, aiMove, snapshot, stack, app>>

\* F applied to the value of x: how a local const of the code is read, its
\* initialiser evaluated once.
Let(x, F(_)) == CHOOSE y \in {F(v) : v \in {x}} : TRUE

----------------------------------------------------------------------------
(* types.ts *)

Null == -1

Squares == 0..63
Row(s) == s \div 8
Col(s) == s % 8
Sq(r, c) == r * 8 + c

PieceIds == (0..15) \cup (48..63)
pieceColor(p) == IF p < 16 THEN "black" ELSE "white"
otherColor(c) == IF c = "white" THEN "black" ELSE "white"

Abs(x) == IF x < 0 THEN -x ELSE x
InSeq(x, s) == \E i \in 1..Len(s) : s[i] = x

----------------------------------------------------------------------------
(* utils.ts *)

backRank == <<"rook", "knight", "bishop", "queen", "king", "bishop", "knight", "rook">>

\* The grid: black on rows 0 and 1, white on rows 6 and 7, each square
\* holding the piece object created for it.
createInitialBoard ==
    [s \in Squares |-> IF Row(s) \in {0, 1, 6, 7} THEN s ELSE Null]

\* The types the piece objects are created with.
initialTypes ==
    [p \in PieceIds |-> IF Row(p) \in {1, 6} THEN "pawn" ELSE backRank[Col(p) + 1]]

isValidPosition(r, c) == r >= 0 /\ r < 8 /\ c >= 0 /\ c < 8

positionsEqual(a, b) == Row(a) = Row(b) /\ Col(a) = Col(b)

\* board.map(row => [...row]): new rows, the same piece objects.
copyBoard(board) == [s \in Squares |-> board[s]]

----------------------------------------------------------------------------
(* ChessGame.ts: construction *)

\* createInitialGameState had it Black to move first.
createInitialGameStateBlackFirst ==
    [board           |-> createInitialBoard,
     currentPlayer   |-> "black",
     moveHistory     |-> <<>>,
     isCheck         |-> FALSE,
     isCheckmate     |-> FALSE,
     isStalemate     |-> FALSE,
     enPassantTarget |-> Null]

createInitialGameState ==
    [board           |-> createInitialBoard,
     currentPlayer   |-> "white",
     moveHistory     |-> <<>>,
     isCheck         |-> FALSE,
     isCheckmate     |-> FALSE,
     isStalemate     |-> FALSE,
     enPassantTarget |-> Null]

createInitialHeap ==
    [type               |-> initialTypes,
     canCastleKingSide  |-> [white |-> TRUE, black |-> TRUE],
     canCastleQueenSide |-> [white |-> TRUE, black |-> TRUE]]

----------------------------------------------------------------------------
(* ChessGame.ts: the move generator.  g is this.state, h the heap.         *)

\* One offset of a knight's or king's offset list.
stepMove(g, from, d) ==
    LET r == Row(from) + d[1]
        c == Col(from) + d[2]
    IN  IF isValidPosition(r, c)
           /\ (g.board[Sq(r, c)] = Null
               \/ pieceColor(g.board[Sq(r, c)]) # pieceColor(g.board[from]))
        THEN <<Sq(r, c)>>
        ELSE <<>>

\* The inner loop of getRookMoves and getBishopMoves, from step i on.
RECURSIVE slide(_, _, _, _)
slide(g, from, d, i) ==
    LET r == Row(from) + d[1] * i
        c == Col(from) + d[2] * i
    IN  IF i >= 8 \/ ~isValidPosition(r, c) THEN <<>>
        ELSE IF g.board[Sq(r, c)] = Null
             THEN <<Sq(r, c)>> \o slide(g, from, d, i + 1)
             ELSE IF pieceColor(g.board[Sq(r, c)]) # pieceColor(g.board[from])
                  THEN <<Sq(r, c)>>
                  ELSE <<>>

getPawnMoves(g, from, color) ==
    LET direction == IF color = "white" THEN -1 ELSE 1
        startRow  == IF color = "white" THEN 6 ELSE 1
        r1 == Row(from) + direction
        r2 == Row(from) + 2 * direction
        c  == Col(from)
        forward ==
            IF isValidPosition(r1, c) /\ g.board[Sq(r1, c)] = Null
            THEN <<Sq(r1, c)>> \o
                 (IF Row(from) = startRow /\ isValidPosition(r2, c)
                     /\ g.board[Sq(r2, c)] = Null
                  THEN <<Sq(r2, c)>> ELSE <<>>)
            ELSE <<>>
        capture(cc) ==
            IF ~isValidPosition(r1, cc) THEN <<>>
            ELSE (IF g.board[Sq(r1, cc)] # Null
                     /\ pieceColor(g.board[Sq(r1, cc)]) # color
                  THEN <<Sq(r1, cc)>> ELSE <<>>)
                 \o
                 (IF g.enPassantTarget # Null
                     /\ positionsEqual(Sq(r1, cc), g.enPassantTarget)
                  THEN <<Sq(r1, cc)>> ELSE <<>>)
    IN  forward \o capture(c - 1) \o capture(c + 1)

getRookMoves(g, from) ==
    slide(g, from, <<-1, 0>>, 1) \o slide(g, from, <<1, 0>>, 1)
    \o slide(g, from, <<0, -1>>, 1) \o slide(g, from, <<0, 1>>, 1)

getKnightMoves(g, from) ==
    stepMove(g, from, <<-2, -1>>) \o stepMove(g, from, <<-2, 1>>)
    \o stepMove(g, from, <<-1, -2>>) \o stepMove(g, from, <<-1, 2>>)
    \o stepMove(g, from, <<1, -2>>) \o stepMove(g, from, <<1, 2>>)
    \o stepMove(g, from, <<2, -1>>) \o stepMove(g, from, <<2, 1>>)

getBishopMoves(g, from) ==
    slide(g, from, <<-1, -1>>, 1) \o slide(g, from, <<-1, 1>>, 1)
    \o slide(g, from, <<1, -1>>, 1) \o slide(g, from, <<1, 1>>, 1)

getQueenMoves(g, from) == getRookMoves(g, from) \o getBishopMoves(g, from)

\* The castling destinations of getKingMoves: the king on its home square,
\* the right still set, the squares towards the corner empty.  The corner
\* itself is not looked at.
castlingMoves(g, h, from) ==
    LET color == pieceColor(g.board[from])
        row   == IF color = "white" THEN 7 ELSE 0
    IN  IF from = Sq(row, 4)
        THEN (IF h.canCastleKingSide[color]
                 /\ g.board[Sq(row, 5)] = Null /\ g.board[Sq(row, 6)] = Null
              THEN <<Sq(row, 6)>> ELSE <<>>)
             \o
             (IF h.canCastleQueenSide[color]
                 /\ g.board[Sq(row, 3)] = Null /\ g.board[Sq(row, 2)] = Null
                 /\ g.board[Sq(row, 1)] = Null
              THEN <<Sq(row, 2)>> ELSE <<>>)
        ELSE <<>>

getKingMoves(g, h, from) ==
    stepMove(g, from, <<-1, -1>>) \o stepMove(g, from, <<-1, 0>>)
    \o stepMove(g, from, <<-1, 1>>) \o stepMove(g, from, <<0, -1>>)
    \o stepMove(g, from, <<0, 1>>) \o stepMove(g, from, <<1, -1>>)
    \o stepMove(g, from, <<1, 0>>) \o stepMove(g, from, <<1, 1>>)
    \o castlingMoves(g, h, from)

\* The pseudo-legal destinations of `piece` standing on `from`.  Whatever
\* board the caller is looking at, occupancy is read from this.state.board.
calculateLegalMoves(g, h, from, piece) ==
    CASE h.type[piece] = "pawn"   -> getPawnMoves(g, from, pieceColor(piece))
      [] h.type[piece] = "rook"   -> getRookMoves(g, from)
      [] h.type[piece] = "knight" -> getKnightMoves(g, from)
      [] h.type[piece] = "bishop" -> getBishopMoves(g, from)
      [] h.type[piece] = "queen"  -> getQueenMoves(g, from)
      [] h.type[piece] = "king"   -> getKingMoves(g, h, from)
      [] OTHER -> <<>>

----------------------------------------------------------------------------
(* ChessGame.ts: the legality filter *)

\* The first king of `color` in a row-major scan of `board`, or Null.
findKing(h, board, color) ==
    LET kings == {s \in Squares : board[s] # Null
                                  /\ h.type[board[s]] = "king"
                                  /\ pieceColor(board[s]) = color}
    IN  IF kings = {} THEN Null
        ELSE CHOOSE s \in kings : \A t \in kings : s <= t

\* The pieces are those of `board`; their moves are generated on g.board.
isSquareAttacked(g, h, board, target, byColor) ==
    \E s \in Squares :
        /\ board[s] # Null
        /\ pieceColor(board[s]) = byColor
        /\ InSeq(target, calculateLegalMoves(g, h, s, board[s]))

isInCheck(g, h, board, color) ==
    LET kingPos == findKing(h, board, color)
    IN  IF kingPos = Null THEN FALSE
        ELSE isSquareAttacked(g, h, board, kingPos, otherColor(color))

\* The piece is put on `to` and taken off `from`; nothing else moves.
simulateMove(g, from, to, piece) ==
    [copyBoard(g.board) EXCEPT ![to] = piece, ![from] = Null]

isLegalMove(g, h, from, to, piece) ==
    ~isInCheck(g, h, simulateMove(g, from, to, piece), g.currentPlayer)

getPossibleMoves(g, h, from) ==
    IF g.board[from] = Null \/ pieceColor(g.board[from]) # g.currentPlayer
    THEN <<>>
    ELSE SelectSeq(calculateLegalMoves(g, h, from, g.board[from]),
                   LAMBDA to : isLegalMove(g, h, from, to, g.board[from]))

hasLegalMoves(g, h, color) ==
    \E s \in Squares :
        /\ g.board[s] # Null
        /\ pieceColor(g.board[s]) = color
        /\ Len(getPossibleMoves(g, h, s)) > 0

----------------------------------------------------------------------------
(* ChessGame.ts: applying a move *)

\* The new Move object of makeMove, before handleSpecialMoves marks it.
newMove(g, from, to) ==
    [from          |-> from,
     to            |-> to,
     piece         |-> g.board[from],
     capturedPiece |-> g.board[to],
     isCastling    |-> FALSE,
     isEnPassant   |-> FALSE,
     promoteTo     |-> "none"]

isCastlingMove(h, from, to, piece) ==
    h.type[piece] = "king" /\ Abs(Col(to) - Col(from)) = 2

isEnPassantMove(g, h, to, piece) ==
    /\ h.type[piece] = "pawn"
    /\ g.enPassantTarget # Null
    /\ positionsEqual(to, g.enPassantTarget)

isPromotionMove(h, to, piece) ==
    h.type[piece] = "pawn" /\ (Row(to) = 0 \/ Row(to) = 7)

\* handleSpecialMoves had it the captured pawn's row on the far side of the
\* destination.
specialBoardFarSide(g, h, from, to, piece) ==
    LET row         == Row(from)
        rookFromCol == IF Col(to) > Col(from) THEN 7 ELSE 0
        rookToCol   == IF Col(to) > Col(from) THEN 5 ELSE 3
        b1 == IF isCastlingMove(h, from, to, piece)
              THEN [g.board EXCEPT ![Sq(row, rookToCol)] = g.board[Sq(row, rookFromCol)],
                                   ![Sq(row, rookFromCol)] = Null]
              ELSE g.board
        capturedPawnRow == IF pieceColor(piece) = "white" THEN Row(to) - 1 ELSE Row(to) + 1
    IN  IF isEnPassantMove(g, h, to, piece)
        THEN [b1 EXCEPT ![Sq(capturedPawnRow, Col(to))] = Null]
        ELSE b1

\* handleSpecialMoves, on the board: the rook of a castling, the pawn taken
\* en passant.
specialBoard(g, h, from, to, piece) ==
    LET row         == Row(from)
        rookFromCol == IF Col(to) > Col(from) THEN 7 ELSE 0
        rookToCol   == IF Col(to) > Col(from) THEN 5 ELSE 3
        b1 == IF isCastlingMove(h, from, to, piece)
              THEN [g.board EXCEPT ![Sq(row, rookToCol)] = g.board[Sq(row, rookFromCol)],
                                   ![Sq(row, rookFromCol)] = Null]
              ELSE g.board
        capturedPawnRow == IF pieceColor(piece) = "white" THEN Row(to) + 1 ELSE Row(to) - 1
    IN  IF isEnPassantMove(g, h, to, piece)
        THEN [b1 EXCEPT ![Sq(capturedPawnRow, Col(to))] = Null]
        ELSE b1

\* handleSpecialMoves, on the Move object.
specialMove(g, h, move) ==
    [move EXCEPT
        !.isCastling  = isCastlingMove(h, move.from, move.to, move.piece),
        !.isEnPassant = isEnPassantMove(g, h, move.to, move.piece),
        !.promoteTo   = IF isPromotionMove(h, move.to, move.piece)
                        THEN "queen" ELSE "none"]

\* handleSpecialMoves had it no promotion.
specialTypeKept(h, to, piece) == h.type

\* handleSpecialMoves, on the piece object: piece.type = 'queen'.
specialType(h, to, piece) ==
    IF isPromotionMove(h, to, piece)
    THEN [h.type EXCEPT ![piece] = "queen"]
    ELSE h.type

\* updateCastlingRights had it no test of the row a rook moves from.
updateCastlingRightsAnyRow(h, type, from, piece) ==
    LET color == pieceColor(piece)
        king  == type[piece] = "king"
        rook  == type[piece] = "rook"
    IN  [h EXCEPT
            !.type = type,
            !.canCastleKingSide[color] =
                IF king \/ (rook /\ Col(from) = 7) THEN FALSE ELSE @,
            !.canCastleQueenSide[color] =
                IF king \/ (rook /\ Col(from) = 0) THEN FALSE ELSE @]

\* updateCastlingRights, reading the type the piece has after
\* handleSpecialMoves.
updateCastlingRights(h, type, from, piece) ==
    LET color == pieceColor(piece)
        home  == IF color = "white" THEN 7 ELSE 0
        king  == type[piece] = "king"
        rook  == type[piece] = "rook" /\ Row(from) = home
    IN  [h EXCEPT
            !.type = type,
            !.canCastleKingSide[color] =
                IF king \/ (rook /\ Col(from) = 7) THEN FALSE ELSE @,
            !.canCastleQueenSide[color] =
                IF king \/ (rook /\ Col(from) = 0) THEN FALSE ELSE @]

\* updateEnPassantTarget had it no test of the type of the piece.
updateEnPassantTargetAnyPiece(type, from, to, piece) ==
    IF Abs(Row(to) - Row(from)) = 2
    THEN Sq((Row(from) + Row(to)) \div 2, Col(from))
    ELSE Null

updateEnPassantTarget(type, from, to, piece) ==
    IF type[piece] = "pawn" /\ Abs(Row(to) - Row(from)) = 2
    THEN Sq((Row(from) + Row(to)) \div 2, Col(from))
    ELSE Null

\* updateGameStatus: isCheck is recomputed; isCheckmate and isStalemate
\* are only ever set.
\* updateGameStatus had it declared the game over on every check.
updateGameStatusOnCheck(g, h) ==
    LET check == isInCheck(g, h, g.board, g.currentPlayer)
        none  == ~hasLegalMoves(g, h, g.currentPlayer)
    IN  [g EXCEPT
            !.isCheck     = check,
            !.isCheckmate = IF check THEN TRUE ELSE @,
            !.isStalemate = IF none /\ ~check THEN TRUE ELSE @]

updateGameStatus(g, h) ==
    LET check == isInCheck(g, h, g.board, g.currentPlayer)
        none  == ~hasLegalMoves(g, h, g.currentPlayer)
    IN  [g EXCEPT
            !.isCheck     = check,
            !.isCheckmate = IF none /\ check THEN TRUE ELSE @,
            !.isStalemate = IF none /\ ~check THEN TRUE ELSE @]

\* What makeMove does to the board: handleSpecialMoves, then the piece is
\* put on `to` and taken off `from`.
performMove(g, h, from, to) ==
    [specialBoard(g, h, from, to, g.board[from]) EXCEPT
        ![to] = g.board[from], ![from] = Null]

\* The body of makeMove had it no switch of the side to move.
applyValidMoveSameSide(g, h, from, to) ==
    LET piece == g.board[from]
        move  == specialMove(g, h, newMove(g, from, to))
        type  == specialType(h, to, piece)
        h2    == updateCastlingRights(h, type, from, piece)
        g2    == [g EXCEPT
                    !.board           = performMove(g, h, from, to),
                    !.moveHistory     = Append(@, move),
                    !.enPassantTarget = updateEnPassantTarget(type, from, to, piece)]
    IN  [ok |-> TRUE, g |-> updateGameStatus(g2, h2), h |-> h2]

\* The body of makeMove once the move has been found valid.
applyValidMove(g, h, from, to) ==
    LET piece == g.board[from]
        move  == specialMove(g, h, newMove(g, from, to))
        type  == specialType(h, to, piece)
        h2    == updateCastlingRights(h, type, from, piece)
        g2    == [g EXCEPT
                    !.board           = performMove(g, h, from, to),
                    !.moveHistory     = Append(@, move),
                    !.enPassantTarget = updateEnPassantTarget(type, from, to, piece),
                    !.currentPlayer   = otherColor(@)]
    IN  Let(h2, LAMBDA rights :
        Let(g2, LAMBDA moved :
            [ok |-> TRUE, g |-> updateGameStatus(moved, rights), h |-> rights]))

\* makeMove had it no test of `to` against the possible moves.
makeMoveFromUnchecked(g, h, from, to, possibleMoves) ==
    IF g.board[from] = Null \/ pieceColor(g.board[from]) # g.currentPlayer
    THEN [ok |-> FALSE, g |-> g, h |-> h]
    ELSE applyValidMove(g, h, from, to)

\* makeMove with the value of getPossibleMoves(from) passed in.
makeMoveFrom(g, h, from, to, possibleMoves) ==
    IF g.board[from] = Null \/ pieceColor(g.board[from]) # g.currentPlayer
    THEN [ok |-> FALSE, g |-> g, h |-> h]
    ELSE IF ~(\E i \in 1..Len(possibleMoves) : positionsEqual(possibleMoves[i], to))
         THEN [ok |-> FALSE, g |-> g, h |-> h]
         ELSE applyValidMove(g, h, from, to)

makeMove(g, h, from, to) ==
    makeMoveFrom(g, h, from, to, getPossibleMoves(g, h, from))

----------------------------------------------------------------------------
(* ChessGame.ts: the move list and the snapshot the search is given.       *)

RECURSIVE movesFromSquare(_, _, _, _)
movesFromSquare(g, h, color, s) ==
    IF s > 63 THEN <<>>
    ELSE (IF g.board[s] # Null /\ pieceColor(g.board[s]) = color
          THEN Let(getPossibleMoves(g, h, s), LAMBDA possibleMoves :
                   [i \in 1..Len(possibleMoves) |-> newMove(g, s, possibleMoves[i])])
          ELSE <<>>)
         \o movesFromSquare(g, h, color, s + 1)

\* getAllLegalMoves had it no use of its argument: the moves of the side to
\* move.
getAllLegalMovesOfMover(g, h, color) == movesFromSquare(g, h, g.currentPlayer, 0)

getAllLegalMoves(g, h, color) == movesFromSquare(g, h, color, 0)

\* The fields of the object getGameState returns that are its own: the
\* spread copies the primitives, copyBoard makes a new grid.  Its
\* moveHistory and its two castling-rights fields are the game's own array
\* and objects, and the grid holds the game's own pieces.
getGameState(g) ==
    [board           |-> copyBoard(g.board),
     currentPlayer   |-> g.currentPlayer,
     isCheck         |-> g.isCheck,
     isCheckmate     |-> g.isCheckmate,
     isStalemate     |-> g.isStalemate,
     enPassantTarget |-> g.enPassantTarget]

----------------------------------------------------------------------------
(* ChessAI.ts                                                              *)

maxDepth == 4

Infinity == 1000000

Max(a, b) == IF a >= b THEN a ELSE b
Min(a, b) == IF a <= b THEN a ELSE b

pieceValues ==
    [pawn |-> 100, knight |-> 320, bishop |-> 330,
     rook |-> 500, queen |-> 900, king |-> 20000]

pawnTable ==
    << <<0,  0,  0,  0,  0,  0,  0,  0>>,
       <<50, 50, 50, 50, 50, 50, 50, 50>>,
       <<10, 10, 20, 30, 30, 20, 10, 10>>,
       <<5,  5, 10, 25, 25, 10,  5,  5>>,
       <<0,  0,  0, 20, 20,  0,  0,  0>>,
       <<5, -5,-10,  0,  0,-10, -5,  5>>,
       <<5, 10, 10,-20,-20, 10, 10,  5>>,
       <<0,  0,  0,  0,  0,  0,  0,  0>> >>

knightTable ==
    << <<-50,-40,-30,-30,-30,-30,-40,-50>>,
       <<-40,-20,  0,  0,  0,  0,-20,-40>>,
       <<-30,  0, 10, 15, 15, 10,  0,-30>>,
       <<-30,  5, 15, 20, 20, 15,  5,-30>>,
       <<-30,  0, 15, 20, 20, 15,  0,-30>>,
       <<-30,  5, 10, 15, 15, 10,  5,-30>>,
       <<-40,-20,  0,  5,  5,  0,-20,-40>>,
       <<-50,-40,-30,-30,-30,-30,-40,-50>> >>

bishopTable ==
    << <<-20,-10,-10,-10,-10,-10,-10,-20>>,
       <<-10,  0,  0,  0,  0,  0,  0,-10>>,
       <<-10,  0,  5, 10, 10,  5,  0,-10>>,
       <<-10,  5,  5, 10, 10,  5,  5,-10>>,
       <<-10,  0, 10, 10, 10, 10,  0,-10>>,
       <<-10, 10, 10, 10, 10, 10, 10,-10>>,
       <<-10,  5,  0,  0,  0,  0,  5,-10>>,
       <<-20,-10,-10,-10,-10,-10,-10,-20>> >>

rookTable ==
    << <<0,  0,  0,  0,  0,  0,  0,  0>>,
       <<5, 10, 10, 10, 10, 10, 10,  5>>,
       <<-5,  0,  0,  0,  0,  0,  0, -5>>,
       <<-5,  0,  0,  0,  0,  0,  0, -5>>,
       <<-5,  0,  0,  0,  0,  0,  0, -5>>,
       <<-5,  0,  0,  0,  0,  0,  0, -5>>,
       <<-5,  0,  0,  0,  0,  0,  0, -5>>,
       <<0,  0,  0,  5,  5,  0,  0,  0>> >>

queenTable ==
    << <<-20,-10,-10, -5, -5,-10,-10,-20>>,
       <<-10,  0,  0,  0,  0,  0,  0,-10>>,
       <<-10,  0,  5,  5,  5,  5,  0,-10>>,
       <<-5,  0,  5,  5,  5,  5,  0, -5>>,
       <<0,  0,  5,  5,  5,  5,  0, -5>>,
       <<-10,  5,  5,  5,  5,  5,  0,-10>>,
       <<-10,  0,  5,  0,  0,  0,  0,-10>>,
       <<-20,-10,-10, -5, -5,-10,-10,-20>> >>

kingMiddleGameTable ==
    << <<-30,-40,-40,-50,-50,-40,-40,-30>>,
       <<-30,-40,-40,-50,-50,-40,-40,-30>>,
       <<-30,-40,-40,-50,-50,-40,-40,-30>>,
       <<-30,-40,-40,-50,-50,-40,-40,-30>>,
       <<-20,-30,-30,-40,-40,-30,-30,-20>>,
       <<-10,-20,-20,-20,-20,-20,-20,-10>>,
       <<20, 20,  0,  0,  0,  0, 20, 20>>,
       <<20, 30, 10,  0,  0, 10, 30, 20>> >>

getPositionValue(h, piece, s) ==
    LET adjustedRow == IF pieceColor(piece) = "white" THEN 7 - Row(s) ELSE Row(s)
        table == CASE h.type[piece] = "pawn"   -> pawnTable
                   [] h.type[piece] = "knight" -> knightTable
                   [] h.type[piece] = "bishop" -> bishopTable
                   [] h.type[piece] = "rook"   -> rookTable
                   [] h.type[piece] = "queen"  -> queenTable
                   [] h.type[piece] = "king"   -> kingMiddleGameTable
    IN  table[adjustedRow + 1][Col(s) + 1]

getPieceValue(h, piece, s) ==
    pieceValues[h.type[piece]] + getPositionValue(h, piece, s)

RECURSIVE scoreFromSquare(_, _, _)
scoreFromSquare(h, board, s) ==
    IF s > 63 THEN 0
    ELSE (IF board[s] = Null THEN 0
          ELSE IF pieceColor(board[s]) = "black"
               THEN getPieceValue(h, board[s], s)
               ELSE 0 - getPieceValue(h, board[s], s))
         + scoreFromSquare(h, board, s + 1)

evaluatePosition(h, board) == scoreFromSquare(h, board, 0)

\* The new game owns its grid, its history array and its primitive fields;
\* its pieces and its castling-rights objects are those of the heap h the
\* original game uses.
createGameCopy(g) ==
    LET currentState == getGameState(g)
    IN  [board           |-> copyBoard(currentState.board),
         moveHistory     |-> [i \in 1..Len(g.moveHistory) |-> g.moveHistory[i]],
         currentPlayer   |-> currentState.currentPlayer,
         isCheck         |-> currentState.isCheck,
         isCheckmate     |-> currentState.isCheckmate,
         isStalemate     |-> currentState.isStalemate,
         enPassantTarget |-> currentState.enPassantTarget]

\* tempGame.applyMove(move) on a fresh copy of g: the copy after the call,
\* and the heap after the call.
applyMove(g, h, move) == makeMove(createGameCopy(g), h, move.from, move.to)

RECURSIVE minimax(_, _, _, _, _, _)
RECURSIVE minimaxLoop(_, _, _, _, _, _, _, _, _)

\* One iteration of the for loop of minimax: the copy, applyMove, the
\* recursive call, and the new maxEval or minEval, alpha and beta; h is the
\* heap the iteration leaves.
minimaxStep(g, h, move, depth, alpha, beta, isMaximizing, eval) ==
    Let(applyMove(g, h, move), LAMBDA tempGame :
    Let(minimax(tempGame.g, tempGame.h, depth - 1, alpha, beta, ~isMaximizing),
        LAMBDA sub :
    [eval  |-> IF isMaximizing THEN Max(eval, sub.value) ELSE Min(eval, sub.value),
     alpha |-> IF isMaximizing THEN Max(alpha, sub.value) ELSE alpha,
     beta  |-> IF isMaximizing THEN beta ELSE Min(beta, sub.value),
     h     |-> sub.h]))

\* The for loop of minimax from its i-th move on, eval the running maxEval
\* or minEval.  The value returned, and the heap the loop leaves.
minimaxLoop(g, h, legalMoves, i, depth, alpha, beta, isMaximizing, eval) ==
    IF i > Len(legalMoves) THEN [value |-> eval, h |-> h]
    ELSE
    Let(minimaxStep(g, h, legalMoves[i], depth, alpha, beta, isMaximizing, eval),
        LAMBDA new :
    IF new.beta <= new.alpha
    THEN [value |-> new.eval, h |-> new.h]
    ELSE minimaxLoop(g, new.h, legalMoves, i + 1, depth, new.alpha, new.beta,
                     isMaximizing, new.eval))

minimax(g, h, depth, alpha, beta, isMaximizing) ==
    IF depth = 0 \/ g.isCheckmate \/ g.isStalemate
    THEN [value |-> evaluatePosition(h, getGameState(g).board), h |-> h]
    ELSE Let(getAllLegalMoves(g, h, IF isMaximizing THEN "black" ELSE "white"),
             LAMBDA legalMoves :
                 minimaxLoop(g, h, legalMoves, 1, depth, alpha, beta, isMaximizing,
                             IF isMaximizing THEN 0 - Infinity ELSE Infinity))

\* What getBestMove returns when it returns null.
noMove ==
    [from |-> Null, to |-> Null, piece |-> Null, capturedPiece |-> Null,
     isCastling |-> FALSE, isEnPassant |-> FALSE, promoteTo |-> "none"]

\* One iteration of the for loop of getBestMove: the move, what applyMove
\* returned for it, the state of tempGame that minimax is called on, the
\* value minimax returned, and the heap the iteration leaves.
rootStep(g, h, move) ==
    Let(applyMove(g, h, move), LAMBDA tempGame :
    Let(minimax(tempGame.g, tempGame.h, maxDepth - 1, 0 - Infinity, Infinity, FALSE),
        LAMBDA sub :
    [move |-> move, applied |-> tempGame.ok, tempGame |-> tempGame.g,
     value |-> sub.value, h |-> sub.h]))

RECURSIVE getBestMoveLoop(_, _, _, _, _, _)
getBestMoveLoop(g, h, legalMoves, i, bestMove, bestValue) ==
    IF i > Len(legalMoves) THEN [move |-> bestMove, h |-> h]
    ELSE
    Let(rootStep(g, h, legalMoves[i]), LAMBDA sub :
    IF sub.value > bestValue
    THEN getBestMoveLoop(g, sub.h, legalMoves, i + 1, legalMoves[i], sub.value)
    ELSE getBestMoveLoop(g, sub.h, legalMoves, i + 1, bestMove, bestValue))

\* The for loop of getBestMove from its i-th move on, as the sequence of its
\* iterations.
RECURSIVE rootCalls(_, _, _, _)
rootCalls(g, h, legalMoves, i) ==
    IF i > Len(legalMoves) THEN <<>>
    ELSE Let(rootStep(g, h, legalMoves[i]), LAMBDA call :
             <<call>> \o rootCalls(g, call.h, legalMoves, i + 1))

\* The move returned, and the heap the search leaves.
getBestMove(g, h) ==
    Let(getAllLegalMoves(g, h, "black"), LAMBDA legalMoves :
        getBestMoveLoop(g, h, legalMoves, 1, noMove, 0 - Infinity))

----------------------------------------------------------------------------
(* ChessAI.ts: the search one step at a time.  A frame of the stack is a   *)
(* call of getBestMove or of minimax that has not returned: its game, its  *)
(* arguments and its local variables.                                      *)

\* The frame of getBestMove when it enters its for loop: bestMove = null and
\* bestValue = -Infinity (kept in eval).  Its depth is maxDepth and its
\* window is (-Infinity, Infinity): what it passes on is maxDepth - 1,
\* -Infinity, Infinity and false.
getBestMoveFrame(g, legalMoves) ==
    [kind |-> "getBestMove", g |-> g, depth |-> maxDepth,
     alpha |-> 0 - Infinity, beta |-> Infinity, isMaximizing |-> TRUE,
     entered |-> TRUE, legalMoves |-> legalMoves, i |-> 1,
     eval |-> 0 - Infinity, bestMove |-> noMove, broke |-> FALSE]

\* The recursive call had it passed depth on unchanged.
minimaxFrameSameDepth(caller, tempGame) ==
    [kind |-> "minimax", g |-> tempGame, depth |-> caller.depth,
     alpha |-> caller.alpha, beta |-> caller.beta,
     isMaximizing |-> ~caller.isMaximizing,
     entered |-> FALSE, legalMoves |-> <<>>, i |-> 1,
     eval |-> IF caller.isMaximizing THEN Infinity ELSE 0 - Infinity,
     bestMove |-> noMove, broke |-> FALSE]

\* The frame of the call minimax(tempGame, depth - 1, alpha, beta,
\* !isMaximizing) that the frame `caller` makes.
minimaxFrame(caller, tempGame) ==
    [kind |-> "minimax", g |-> tempGame, depth |-> caller.depth - 1,
     alpha |-> caller.alpha, beta |-> caller.beta,
     isMaximizing |-> ~caller.isMaximizing,
     entered |-> FALSE, legalMoves |-> <<>>, i |-> 1,
     eval |-> IF caller.isMaximizing THEN Infinity ELSE 0 - Infinity,
     bestMove |-> noMove, broke |-> FALSE]

\* The rest of a loop iteration, in the frame `caller`, once the call it made
\* has returned value: the update of bestValue and bestMove, or of maxEval or
\* minEval and alpha or beta, and the test for the break.
afterCall(caller, value) ==
    IF caller.kind = "getBestMove"
    THEN [caller EXCEPT
            !.eval     = IF value > caller.eval THEN value ELSE @,
            !.bestMove = IF value > caller.eval THEN caller.legalMoves[caller.i] ELSE @,
            !.i        = @ + 1]
    ELSE LET alpha == IF caller.isMaximizing THEN Max(caller.alpha, value)
                      ELSE caller.alpha
             beta  == IF caller.isMaximizing THEN caller.beta
                      ELSE Min(caller.beta, value)
         IN  [caller EXCEPT
                !.eval  = IF caller.isMaximizing THEN Max(@, value) ELSE Min(@, value),
                !.alpha = alpha,
                !.beta  = beta,
                !.broke = beta <= alpha,
                !.i     = @ + 1]

\* The stack once its top frame has returned value to the frame below it.
returnTo(frames, value) ==
    [SubSeq(frames, 1, Len(frames) - 1) EXCEPT
        ![Len(frames) - 1] = afterCall(@, value)]

----------------------------------------------------------------------------
(* The callers.  A caller may call makeMove with any pair of squares.  The *)
(* calls that are accepted are bounded: any legal move in the first        *)
(* MaxFree moves of a game, and after that the moves of the Book, a set of *)
(* games that lead to the positions the properties below are about.        *)

MaxFree == 1

\* 1. e3 a6 2. Qh5 f6 3. Qxe8: the pawn on f7 shields the black king from
\* the queen, moves, and the queen takes the king.
LineKingTaken == << <<52, 44>>, <<8, 16>>, <<59, 31>>, <<13, 21>>, <<31, 4>> >>

\* 1. e4 f6 2. Qh5+: the check can be met by 2... g6.
LineInterpose == << <<52, 36>>, <<13, 21>>, <<59, 31>> >>

\* 1. b3 g5 2. Bb2 Nf6 3. Bxf6 Bh6 4. Bxh8 O-O: the rook on h8 is taken
\* before it has moved, and black castles towards its corner.
LineCastle == << <<49, 41>>, <<14, 30>>, <<58, 49>>, <<6, 21>>, <<49, 21>>,
                 <<5, 23>>, <<21, 7>>, <<4, 6>> >>

\* 1. b4 g6 2. a4 Bg7 3. h4 Bxa1 4. Rh3 Bg7 5. Ra3 a6 6. Ra1 a5 7. Ra2:
\* the rook of h1 moves off a1, where the rook of a1 was taken.
LineRook == << <<49, 33>>, <<14, 22>>, <<48, 32>>, <<5, 14>>, <<55, 39>>,
               <<14, 56>>, <<63, 47>>, <<56, 14>>, <<47, 40>>, <<8, 16>>,
               <<40, 56>>, <<16, 24>>, <<56, 48>> >>

\* 1. f3 e5 2. g4 Qh4#
LineMate == << <<53, 45>>, <<12, 28>>, <<54, 38>>, <<3, 39>> >>

\* 1. e4 a6 2. e5 d5 3. exd6, en passant.
LineEnPassant == << <<52, 36>>, <<8, 16>>, <<36, 28>>, <<11, 27>>, <<28, 19>> >>

\* 1. e4 e5 2. Nf3 Nc6 3. Bc4 Bc5 4. O-O
LineCastleShort == << <<52, 36>>, <<12, 28>>, <<62, 45>>, <<1, 18>>, <<61, 34>>,
                      <<5, 26>>, <<60, 62>> >>

\* 1. a4 b5 2. axb5 a6 3. bxa6 Bb7 4. axb7 Nc6 5. bxa8=Q
LinePromote == << <<48, 32>>, <<9, 25>>, <<32, 25>>, <<8, 16>>, <<25, 16>>,
                  <<2, 9>>, <<16, 9>>, <<1, 18>>, <<9, 0>> >>

\* A game played down to the white king on h6 against the black king on e8,
\* which has never moved, Black to move: a position small enough for the
\* search to be run on.
LineSparse ==
    << <<50, 42>>, <<9, 17>>, <<51, 35>>, <<6, 23>>, <<58, 23>>,
       <<14, 23>>, <<59, 41>>, <<11, 19>>, <<41, 17>>, <<10, 17>>,
       <<48, 40>>, <<3, 10>>, <<55, 47>>, <<2, 47>>, <<54, 47>>,
       <<10, 42>>, <<57, 42>>, <<8, 24>>, <<42, 59>>, <<1, 11>>,
       <<47, 39>>, <<11, 26>>, <<35, 26>>, <<17, 26>>, <<62, 47>>,
       <<24, 32>>, <<49, 41>>, <<32, 41>>, <<59, 49>>, <<12, 20>>,
       <<52, 44>>, <<13, 21>>, <<49, 32>>, <<19, 27>>, <<32, 26>>,
       <<5, 26>>, <<47, 62>>, <<26, 44>>, <<53, 44>>, <<41, 49>>,
       <<61, 47>>, <<49, 56>>, <<60, 51>>, <<56, 62>>, <<47, 20>>,
       <<62, 44>>, <<51, 50>>, <<44, 40>>, <<20, 27>>, <<21, 29>>,
       <<27, 0>>, <<40, 0>>, <<39, 31>>, <<0, 63>>, <<50, 42>>, <<63, 31>>,
       <<42, 51>>, <<31, 59>>, <<51, 59>>, <<7, 6>>, <<59, 51>>, <<6, 14>>,
       <<51, 44>>, <<29, 37>>, <<44, 37>>, <<14, 30>>, <<37, 30>>,
       <<23, 31>>, <<30, 31>>, <<15, 23>>, <<31, 23>> >>

\* 1. a3 d5 2. a4 d4 3. e4 dxe3: Black takes en passant.
LineEnPassantBlack == << <<48, 40>>, <<11, 27>>, <<40, 32>>, <<27, 35>>,
                         <<52, 36>>, <<35, 44>> >>

\* The game of LineSparse and then ... Kd8: king against king, White to move.
LineSparseWhite == LineSparse \o << <<4, 3>> >>

\* The game of LineSparse up to the white king on h5 against the black king
\* on e8 and a black pawn on h7, and then on to the white king on a1, the
\* black king on b3 and the black pawn on h2, Black to move: h2-h1 promotes
\* and mates.
LineMateInOne ==
    SubSeq(LineSparse, 1, 69) \o
    << <<4, 11>>, <<31, 38>>, <<11, 18>>, <<38, 45>>, <<15, 31>>, <<45, 52>>,
       <<31, 39>>, <<52, 59>>, <<39, 47>>, <<59, 58>>, <<47, 55>>, <<58, 57>>,
       <<18, 25>>, <<57, 56>>, <<25, 33>>, <<56, 57>>, <<33, 41>>, <<57, 56>> >>

\* The game of LineSparse up to its 59th move, and then on to the white king
\* on g1, the black king on h3 and a black pawn on f3, Black to move: the
\* pawn is two moves from promotion.
LinePawnF3 ==
    SubSeq(LineSparse, 1, 59) \o
    << <<7, 6>>, <<59, 52>>, <<6, 38>>, <<52, 45>>, <<38, 39>>, <<45, 46>>,
       <<4, 11>>, <<46, 39>>, <<11, 18>>, <<39, 30>>, <<18, 26>>, <<30, 23>>,
       <<26, 35>>, <<23, 15>>, <<29, 37>>, <<15, 22>>, <<35, 44>>, <<22, 29>>,
       <<44, 53>>, <<29, 36>>, <<53, 46>>, <<36, 44>>, <<46, 47>>, <<44, 53>>,
       <<37, 45>>, <<53, 62>> >>

\* The game of LineMateInOne and then ... Ka4, Kb2 h1=Q, Ka2 Qc1: the white
\* king on a2 is not attacked and has no square to go to.
LineStalemate ==
    LineMateInOne \o
    << <<41, 32>>, <<56, 49>>, <<55, 63>>, <<49, 48>>, <<63, 58>> >>

Book ==
    {LineKingTaken, LineInterpose, LineCastle, LineRook, LineMate,
     LineEnPassant, LineCastleShort, LinePromote, LineSparse,
     LineEnPassantBlack, LineSparseWhite, LineMateInOne, LinePawnF3,
     LineStalemate}

played(g) == [i \in 1..Len(g.moveHistory) |->
                 <<g.moveHistory[i].from, g.moveHistory[i].to>>]

isPrefix(s, t) == Len(s) <= Len(t) /\ \A i \in 1..Len(s) : s[i] = t[i]

isFree(g) == Len(g.moveHistory) < MaxFree

\* The next moves of the lines of the Book that the game is following.
bookMoves(g) ==
    {line[Len(played(g)) + 1] :
        line \in {l \in Book : Len(l) > Len(played(g)) /\ isPrefix(played(g), l)}}

\* The destinations a caller tries from a square, given the value of
\* getPossibleMoves(from): every square that makeMove rejects, and the
\* legal destinations within the bounds.
triesFrom(g, from, possibleMoves) ==
    {to \in Squares : \/ ~InSeq(to, possibleMoves)
                      \/ isFree(g)
                      \/ <<from, to>> \in bookMoves(g)}

\* The number of pieces on a board.
pieceCount(board) == Cardinality({s \in Squares : board[s] # Null})

\* getBestMove is called on positions of at most MaxSearchPieces pieces.
MaxSearchPieces == 2

\* App lets the AI move at the end of a game of the Book that has come down
\* to at most MaxAIPieces pieces.
MaxAIPieces == 3

\* The caller takes its snapshot within the first MaxSnapshotAt moves.
MaxSnapshotAt == 1

\* What a caller reads through an object obj that getGameState returned:
\* the fields obj owns, and behind its references the game's history array,
\* the game's castling-rights objects and the game's pieces.
shows(obj, g, h) ==
    [board              |-> obj.board,
     type               |-> [s \in Squares |-> IF obj.board[s] = Null THEN "none"
                                               ELSE h.type[obj.board[s]]],
     currentPlayer      |-> obj.currentPlayer,
     moveHistory        |-> g.moveHistory,
     isCheck            |-> obj.isCheck,
     isCheckmate        |-> obj.isCheckmate,
     isStalemate        |-> obj.isStalemate,
     canCastleKingSide  |-> h.canCastleKingSide,
     canCastleQueenSide |-> h.canCastleQueenSide,
     enPassantTarget    |-> obj.enPassantTarget]

\* The caller's record of a snapshot: the object, and what it showed when
\* getGameState returned it.
takeSnapshot(taken, g, h) ==
    [taken |-> taken,
     obj   |-> getGameState(g),
     shown |-> shows(getGameState(g), g, h)]

----------------------------------------------------------------------------
(* App.tsx: the React state of App and the timers it has set.  A timer is  *)
(* kept as the record of when it was set: the number of the game (0 for    *)
(* the first, one more at each New Game) and the number of moves played.   *)

\* New Game is clicked at most MaxResets times.
MaxResets == 1

\* A move is clicked while fewer than MaxClickAt moves have been played.
MaxClickAt == 4

\* A move is clicked while the timers it sets bring at most MaxPending
\* timers to wait.
MaxPending == 3

\* The fields of gameState that App reads in its handlers and its effect.
rendered(g) ==
    [currentPlayer |-> getGameState(g).currentPlayer,
     isCheckmate   |-> getGameState(g).isCheckmate,
     isStalemate   |-> getGameState(g).isStalemate]

\* App when it is mounted: the state of the first render, no timer set.
\* gameState and isThinking are what the last render saw, thinking what
\* setIsThinking was last given, dirty whether a render is due, timers the
\* setTimeout(() => makeAIMove(), 500) that wait and callbacks the
\* setTimeout(..., 1000) of makeAIMove that wait, each in the order set.
createApp ==
    [gameState  |-> rendered(createInitialGameState),
     isThinking |-> FALSE,
     thinking   |-> FALSE,
     dirty      |-> FALSE,
     timers     |-> <<>>,
     callbacks  |-> <<>>,
     game       |-> 0]

\* The timer set now.
timerNow(a, g) == [game |-> a.game, at |-> Len(g.moveHistory)]

\* handleSquareClick had it no test of the turn.
clickIgnoredNever(gameState) == FALSE

\* The first test of handleSquareClick: the click is ignored on Black's
\* turn in a game that is not over.
clickIgnored(gameState) ==
    /\ gameState.currentPlayer = "black"
    /\ ~gameState.isCheckmate
    /\ ~gameState.isStalemate

\* A render of App and the effects after it: the render reads the state
\* that was set, and the effect on [currentPlayer, isCheckmate, isStalemate]
\* runs when one of them differs from the render before, and sets the timer
\* of makeAIMove on Black's turn in a game that is not over, unless
\* isThinking.
render(a, g) ==
    LET gameState == rendered(g)
    IN  [a EXCEPT
            !.gameState  = gameState,
            !.isThinking = a.thinking,
            !.dirty      = FALSE,
            !.timers     = IF /\ gameState # a.gameState
                              /\ gameState.currentPlayer = "black"
                              /\ ~gameState.isCheckmate
                              /\ ~gameState.isStalemate
                              /\ ~a.thinking
                           THEN Append(@, timerNow(a, g))
                           ELSE @]

\* What the accepted branch of handleSquareClick does to App: the timer of
\* makeAIMove unless the game is over, and the render that follows the
\* click.
clicked(a, g) ==
    render([a EXCEPT
               !.timers = IF ~getGameState(g).isCheckmate /\ ~getGameState(g).isStalemate
                          THEN Append(@, timerNow(a, g))
                          ELSE @],
           g)

\* The moves the search is taken to return on a non-empty list: the first
\* of the list, and those that follow a game of the Book.
picks(g, legalMoves) ==
    {legalMoves[1]} \cup
    {legalMoves[i] : i \in {j \in 1..Len(legalMoves) :
                               \/ isFree(g)
                               \/ <<legalMoves[j].from, legalMoves[j].to>> \in bookMoves(g)}}

Init ==
    /\ state = createInitialGameState
    /\ heap = createInitialHeap
    /\ ret = FALSE
    /\ op = "new"
    /\ aiMove = noMove
    /\ snapshot = takeSnapshot(FALSE, createInitialGameState, createInitialHeap)
    /\ stack = <<>>
    /\ app = createApp

\* game.makeMove(from, to)
MakeMoveCall ==
    \E from \in Squares :
        \E possibleMoves \in {getPossibleMoves(state, heap, from)} :
            \E to \in triesFrom(state, from, possibleMoves) :
                \E r \in {makeMoveFrom(state, heap, from, to, possibleMoves)} :
                    /\ state' = r.g
                    /\ heap' = r.h
                    /\ ret' = r.ok
                    /\ op' = "makeMove"
                    /\ UNCHANGED <<aiMove, snapshot, stack, app>>

\* ai.getBestMove(game)
GetBestMoveCall ==
    /\ pieceCount(state.board) <= MaxSearchPieces
    /\ \E r \in {getBestMove(state, heap)} :
           /\ aiMove' = r.move
           /\ heap' = r.h
           /\ op' = "getBestMove"
           /\ UNCHANGED <<state, ret, snapshot, stack, app>>

\* App.makeAIMove, the callback of its timer: the move getBestMove returns,
\* if it is one, is passed to applyMove on the game itself.
MakeAIMoveCall ==
    /\ pieceCount(state.board) <= MaxAIPieces
    /\ played(state) \in Book
    /\ \E found \in {getBestMove(state, heap)} :
           /\ aiMove' = found.move
           /\ op' = "makeAIMove"
           /\ UNCHANGED <<snapshot, stack, app>>
           /\ IF found.move # noMove
              THEN \E r \in {makeMove(state, found.h, found.move.from, found.move.to)} :
                       /\ state' = r.g
                       /\ heap' = r.h
                       /\ ret' = r.ok
              ELSE /\ state' = state
                   /\ heap' = found.h
                   /\ ret' = FALSE

\* game.getGameState(), the caller keeping the object returned
GetGameStateCall ==
    /\ ~snapshot.taken
    /\ Len(state.moveHistory) <= MaxSnapshotAt
    /\ snapshot' = takeSnapshot(TRUE, state, heap)
    /\ op' = "getGameState"
    /\ UNCHANGED <<state, heap, ret, aiMove, stack, app>>

Next == MakeMoveCall

Spec == Init /\ [][Next]_vars

\* The game with a caller that also runs the search.
NextSearch == MakeMoveCall \/ GetBestMoveCall

SpecSearch == Init /\ [][NextSearch]_vars

\* The game with a caller that also keeps a snapshot.
\* App.resetGame: Object.assign(game, new ChessGame()) puts the state object
\* of a newly constructed game, with its own pieces and rights objects, in
\* place of the old one.
ResetGameCall ==
    /\ state' = createInitialGameState
    /\ heap' = createInitialHeap
    /\ ret' = FALSE
    /\ op' = "resetGame"
    /\ UNCHANGED <<aiMove, snapshot, stack, app>>

NextReset == MakeMoveCall \/ ResetGameCall

SpecReset == Init /\ [][NextReset]_vars

NextApp == MakeMoveCall \/ MakeAIMoveCall

SpecApp == Init /\ [][NextApp]_vars

NextSnapshot == MakeMoveCall \/ GetGameStateCall

SpecSnapshot == Init /\ [][NextSnapshot]_vars

\* ai.getBestMove(game), up to its for loop: null when Black has no move in
\* the list.
GetBestMoveEnter ==
    /\ stack = <<>>
    /\ pieceCount(state.board) <= MaxSearchPieces
    /\ \E legalMoves \in {getAllLegalMoves(state, heap, "black")} :
           IF Len(legalMoves) = 0
           THEN /\ aiMove' = noMove
                /\ op' = "getBestMove"
                /\ UNCHANGED <<state, heap, ret, snapshot, stack, app>>
           ELSE /\ stack' = <<getBestMoveFrame(state, legalMoves)>>
                /\ op' = "searching"
                /\ UNCHANGED <<state, heap, ret, aiMove, snapshot, app>>

\* The first lines of minimax: the value of the position at depth 0 or in a
\* game that is over, and the move list otherwise.
MinimaxEnter ==
    /\ stack # <<>>
    /\ \E top \in {stack[Len(stack)]} :
           /\ ~top.entered
           /\ IF top.depth = 0 \/ top.g.isCheckmate \/ top.g.isStalemate
              THEN \E value \in {evaluatePosition(heap, getGameState(top.g).board)} :
                       stack' = returnTo(stack, value)
              ELSE \E legalMoves \in {getAllLegalMoves(top.g, heap,
                                          IF top.isMaximizing THEN "black" ELSE "white")} :
                       stack' = [stack EXCEPT ![Len(stack)] =
                                    [@ EXCEPT !.entered = TRUE,
                                              !.legalMoves = legalMoves]]
    /\ UNCHANGED <<state, heap, ret, op, aiMove, snapshot, app>>

\* A loop iteration of getBestMove or minimax up to its recursive call: the
\* copy of the game, applyMove on the copy, and the call.
LoopCall ==
    /\ stack # <<>>
    /\ \E top \in {stack[Len(stack)]} :
           /\ top.entered
           /\ ~top.broke
           /\ top.i <= Len(top.legalMoves)
           /\ \E tempGame \in {applyMove(top.g, heap, top.legalMoves[top.i])} :
              \E frame \in {minimaxFrame(top, tempGame.g)} :
                  /\ heap' = tempGame.h
                  /\ stack' = Append(stack, frame)
    /\ UNCHANGED <<state, ret, op, aiMove, snapshot, app>>

\* minimax returns maxEval or minEval after its loop.
MinimaxReturn ==
    /\ stack # <<>>
    /\ \E top \in {stack[Len(stack)]} :
           /\ top.kind = "minimax"
           /\ top.entered
           /\ top.broke \/ top.i > Len(top.legalMoves)
           /\ stack' = returnTo(stack, top.eval)
    /\ UNCHANGED <<state, heap, ret, op, aiMove, snapshot, app>>

\* getBestMove returns bestMove after its loop.
GetBestMoveReturn ==
    /\ stack # <<>>
    /\ \E top \in {stack[Len(stack)]} :
           /\ top.kind = "getBestMove"
           /\ top.i > Len(top.legalMoves)
           /\ aiMove' = top.bestMove
    /\ stack' = <<>>
    /\ op' = "getBestMove"
    /\ UNCHANGED <<state, heap, ret, snapshot, app>>

\* A step of a search that is running.
SearchStep == MinimaxEnter \/ LoopCall \/ MinimaxReturn \/ GetBestMoveReturn

\* The game with a caller that also runs the search, the search seen one
\* step at a time.  getBestMove is synchronous: no other call is made while
\* it runs, and it runs on until it returns.
NextSearchSteps ==
    \/ stack = <<>> /\ MakeMoveCall
    \/ GetBestMoveEnter
    \/ SearchStep

SpecSearchSteps == Init /\ [][NextSearchSteps]_vars /\ WF_vars(SearchStep)

\* App.handleSquareClick(to) with from selected.
HandleSquareClick ==
    /\ Len(state.moveHistory) < MaxClickAt
    /\ Len(app.timers) + Len(app.callbacks) + 2 <= MaxPending
    /\ op' = "handleSquareClick"
    /\ UNCHANGED <<aiMove, snapshot, stack>>
    /\ IF clickIgnored(app.gameState)
       THEN /\ ret' = FALSE
            /\ UNCHANGED <<state, heap, app>>
       ELSE \E from \in Squares :
                \E possibleMoves \in {getPossibleMoves(state, heap, from)} :
                    \E to \in triesFrom(state, from, possibleMoves) :
                        \E r \in {makeMoveFrom(state, heap, from, to, possibleMoves)} :
                            /\ state' = r.g
                            /\ heap' = r.h
                            /\ ret' = r.ok
                            /\ app' = IF r.ok THEN clicked(app, r.g) ELSE app

\* The timer of makeAIMove fires: setIsThinking(true), and the timer of the
\* callback is set.
MakeAIMove ==
    /\ app.timers # <<>>
    /\ app' = [app EXCEPT !.timers    = Tail(@),
                          !.callbacks = Append(@, Head(app.timers)),
                          !.thinking  = TRUE,
                          !.dirty     = TRUE]
    /\ op' = "makeAIMoveTimer"
    /\ UNCHANGED <<state, heap, ret, aiMove, snapshot, stack>>

\* The callback of makeAIMove fires: getBestMove, which returns null on an
\* empty move list, applyMove and updateGameState on a move, and
\* setIsThinking(false).  Which move of the list the search returns is left
\* open within picks, and what the search writes to the objects the game
\* shares with its copies is left out.
MakeAIMoveCallback ==
    /\ app.callbacks # <<>>
    /\ app' = [app EXCEPT !.callbacks = Tail(@),
                          !.thinking  = FALSE,
                          !.dirty     = TRUE]
    /\ op' = "makeAIMoveCallback"
    /\ UNCHANGED <<snapshot, stack>>
    /\ \E legalMoves \in {getAllLegalMoves(state, heap, "black")} :
           IF Len(legalMoves) = 0
           THEN /\ aiMove' = noMove
                /\ ret' = FALSE
                /\ UNCHANGED <<state, heap>>
           ELSE \E move \in picks(state, legalMoves) :
                    \E r \in {makeMove(state, heap, move.from, move.to)} :
                        /\ aiMove' = move
                        /\ state' = r.g
                        /\ heap' = r.h
                        /\ ret' = r.ok

\* App.resetGame, the New Game button.  The timers that wait are not
\* cleared.
ResetGame ==
    /\ app.game < MaxResets
    /\ state' = createInitialGameState
    /\ heap' = createInitialHeap
    /\ app' = render([app EXCEPT !.game = @ + 1], createInitialGameState)
    /\ ret' = FALSE
    /\ op' = "resetGame"
    /\ UNCHANGED <<aiMove, snapshot, stack>>

\* React renders App after a timer has set its state.
Render ==
    /\ app.dirty
    /\ app' = render(app, state)
    /\ op' = "render"
    /\ UNCHANGED <<state, heap, ret, aiMove, snapshot, stack>>

\* App: clicks, New Game, timers and renders in any order.
NextAppEvents ==
    \/ HandleSquareClick
    \/ MakeAIMove
    \/ MakeAIMoveCallback
    \/ ResetGame
    \/ Render

SpecAppEvents == Init /\ [][NextAppEvents]_vars

----------------------------------------------------------------------------
(* The rules of chess the properties refer to: which squares a piece       *)
(* attacks on a given board.                                               *)

\* Every square strictly between s and t, on a common line, is empty.
clearLine(board, s, t) ==
    LET dr == Row(t) - Row(s)
        dc == Col(t) - Col(s)
        n  == IF Abs(dr) > Abs(dc) THEN Abs(dr) ELSE Abs(dc)
    IN  \A k \in 1..(n - 1) :
            board[Sq(Row(s) + (dr \div n) * k, Col(s) + (dc \div n) * k)] = Null

\* The piece of type `type` and colour `color` on s attacks t.
attacks(board, type, color, s, t) ==
    LET dr == Row(t) - Row(s)
        dc == Col(t) - Col(s)
        straight == (dr = 0 \/ dc = 0) /\ s # t
        diagonal == Abs(dr) = Abs(dc) /\ s # t
    IN  CASE type = "pawn"   -> dr = (IF color = "white" THEN -1 ELSE 1) /\ Abs(dc) = 1
          [] type = "knight" -> {Abs(dr), Abs(dc)} = {1, 2}
          [] type = "king"   -> s # t /\ Abs(dr) <= 1 /\ Abs(dc) <= 1
          [] type = "rook"   -> straight /\ clearLine(board, s, t)
          [] type = "bishop" -> diagonal /\ clearLine(board, s, t)
          [] type = "queen"  -> (straight \/ diagonal) /\ clearLine(board, s, t)
          [] OTHER -> FALSE

\* A king of `color` stands on a square that an enemy piece attacks.
kingAttacked(board, type, color) ==
    \E k \in Squares :
        /\ board[k] # Null
        /\ type[board[k]] = "king"
        /\ pieceColor(board[k]) = color
        /\ \E s \in Squares :
              /\ board[s] # Null
              /\ pieceColor(board[s]) # color
              /\ attacks(board, type[board[s]], pieceColor(board[s]), s, k)

\* The squares holding a piece of the side to move.
ownSquares(g) ==
    {s \in Squares : g.board[s] # Null /\ pieceColor(g.board[s]) = g.currentPlayer}

\* The destination leaves the mover's king unattacked on the board that
\* performing the move gives.
safeMove(g, h, from, to) ==
    ~kingAttacked(performMove(g, h, from, to),
                  specialType(h, to, g.board[from]), g.currentPlayer)

\* The side to move has a pseudo-legal move that is safe.
sideHasSafeMove(g, h) ==
    \E from \in ownSquares(g) :
        LET moves == calculateLegalMoves(g, h, from, g.board[from])
        IN  \E i \in 1..Len(moves) : safeMove(g, h, from, moves[i])

----------------------------------------------------------------------------
(* Properties *)

\* C1: in every reachable state, no destination that getPossibleMoves
\* returns leaves the king of the side that moved attacked once makeMove
\* has applied it.
C1_NoSelfCheck ==
    \A from \in ownSquares(state) :
        LET moves == getPossibleMoves(state, heap, from)
        IN  \A i \in 1..Len(moves) :
                LET r == makeMoveFrom(state, heap, from, moves[i], moves)
                IN  r.ok /\ ~kingAttacked(r.g.board, r.h.type, state.currentPlayer)

\* C2: getPossibleMoves returns every pseudo-legal destination whose
\* resulting board leaves the mover's king unattacked.
C2_SafeMovesReturned ==
    \A from \in ownSquares(state) :
        LET pseudo == calculateLegalMoves(state, heap, from, state.board[from])
            moves  == getPossibleMoves(state, heap, from)
        IN  \A i \in 1..Len(pseudo) :
                safeMove(state, heap, from, pseudo[i]) => InSeq(pseudo[i], moves)

\* C3: makeMove returns false and changes nothing when `from` is empty,
\* holds a piece of the side not to move, or `to` is not among
\* getPossibleMoves(from); otherwise it returns true.
C3_RejectedUnchanged ==
    \A from \in Squares :
        LET moves == getPossibleMoves(state, heap, from)
        IN  \A to \in Squares :
                LET r == makeMoveFrom(state, heap, from, to, moves)
                IN  IF \/ state.board[from] = Null
                       \/ pieceColor(state.board[from]) # state.currentPlayer
                       \/ ~InSeq(to, moves)
                    THEN ~r.ok /\ r.g = state /\ r.h = heap
                    ELSE r.ok

C3_Witness ==
    op = "makeMove" /\ ~ret /\ Len(state.moveHistory) > 0

\* The step is a call of makeMove that returned true.
moveApplied == op' = "makeMove" /\ ret'

lastMove(g) == g.moveHistory[Len(g.moveHistory)]

\* C4: every makeMove that returns true flips currentPlayer and appends one
\* Move; white is to move exactly when the history has even length, and
\* the piece of the last Move belongs to the side that is not to move.
C4_Alternation ==
    /\ [](/\ (state.currentPlayer = "white") <=> (Len(state.moveHistory) % 2 = 0)
          /\ Len(state.moveHistory) > 0 =>
                pieceColor(lastMove(state).piece) # state.currentPlayer)
    /\ [][moveApplied =>
            /\ state'.currentPlayer # state.currentPlayer
            /\ Len(state'.moveHistory) = Len(state.moveHistory) + 1
            /\ SubSeq(state'.moveHistory, 1, Len(state.moveHistory)) = state.moveHistory]_vars

C4_Witness ==
    op = "makeMove" /\ ret /\ Len(state.moveHistory) = 3
    /\ state.currentPlayer = "black"

\* C5: after an applied move isCheck says whether the king of the side to
\* move is attacked; with no legal move for that side isCheckmate or
\* isStalemate is set according to isCheck, with a legal move neither is;
\* they are never both set.
C5_StatusFlags ==
    (op = "makeMove" /\ ret) =>
        /\ state.isCheck <=> kingAttacked(state.board, heap.type, state.currentPlayer)
        /\ IF sideHasSafeMove(state, heap)
           THEN ~state.isCheckmate /\ ~state.isStalemate
           ELSE IF state.isCheck THEN state.isCheckmate ELSE state.isStalemate
        /\ ~(state.isCheckmate /\ state.isStalemate)

\* The piece has never been the piece of a Move of the history.
neverMoved(g, piece) ==
    \A i \in 1..Len(g.moveHistory) : g.moveHistory[i].piece # piece

homeRow(color) == IF color = "white" THEN 7 ELSE 0

\* The rook's corner for a king that goes to column `col`.
cornerCol(col) == IF col = 6 THEN 7 ELSE 0

\* The columns strictly between two columns.
between(a, b) == {c \in 0..7 : (a < c /\ c < b) \/ (b < c /\ c < a)}

\* C8: getPossibleMoves offers a king a destination two columns away only
\* when king and rook have never moved, the king is on its home square, a
\* rook of its colour is on the home corner of that side, and the squares
\* between them are empty.
C8_CastlingOffered ==
    \A from \in ownSquares(state) :
        LET moves  == getPossibleMoves(state, heap, from)
            king   == state.board[from]
            row    == homeRow(state.currentPlayer)
        IN  \A i \in 1..Len(moves) :
                (heap.type[king] = "king" /\ Abs(Col(moves[i]) - Col(from)) = 2) =>
                    LET corner == Sq(row, cornerCol(Col(moves[i])))
                        rook   == state.board[corner]
                    IN  /\ from = Sq(row, 4)
                        /\ neverMoved(state, king)
                        /\ rook # Null
                        /\ heap.type[rook] = "rook"
                        /\ pieceColor(rook) = state.currentPlayer
                        /\ neverMoved(state, rook)
                        /\ \A c \in between(4, Col(corner)) :
                              state.board[Sq(row, c)] = Null

\* C9: when makeMove applies a king move of two columns, the king is on its
\* destination, a rook of the mover's colour on the square the king
\* passed over, the king's origin and the corner are empty, the Move is
\* marked isCastling, and no other square changes.
C9_CastlingPerformed ==
    [][(moveApplied
        /\ heap'.type[lastMove(state').piece] = "king"
        /\ Abs(Col(lastMove(state').to) - Col(lastMove(state').from)) = 2) =>
            LET m      == lastMove(state')
                row    == Row(m.from)
                corner == Sq(row, cornerCol(Col(m.to)))
                rookTo == Sq(row, (Col(m.from) + Col(m.to)) \div 2)
            IN  /\ Col(m.to) \in {2, 6}
                /\ state'.board[m.to] = m.piece
                /\ state'.board[rookTo] # Null
                /\ heap'.type[state'.board[rookTo]] = "rook"
                /\ pieceColor(state'.board[rookTo]) = pieceColor(m.piece)
                /\ state'.board[m.from] = Null
                /\ state'.board[corner] = Null
                /\ m.isCastling
                /\ \A s \in Squares \ {m.from, m.to, corner, rookTo} :
                      state'.board[s] = state.board[s]]_vars

rights(h) == <<h.canCastleKingSide.white, h.canCastleQueenSide.white,
               h.canCastleKingSide.black, h.canCastleQueenSide.black>>

\* The rights after a move of a piece of type `type` and colour `color`,
\* where `kingSide` and `queenSide` say whether the move is one that clears
\* that side's right.
rightsAfter(h, type, color, kingSide, queenSide) ==
    LET k(c) == IF c = color /\ (type = "king" \/ kingSide)
                THEN FALSE ELSE h.canCastleKingSide[c]
        q(c) == IF c = color /\ (type = "king" \/ queenSide)
                THEN FALSE ELSE h.canCastleQueenSide[c]
    IN  <<k("white"), q("white"), k("black"), q("black")>>

\* C10, as claimed: a king move clears both rights of its colour, a move
\* of a rook from the corner it started on clears that side's right, every
\* other move leaves the four rights as they are.
C10_AsClaimed ==
    [][moveApplied =>
        LET m    == lastMove(state')
            type == heap'.type[m.piece]
            own  == type = "rook" /\ m.from = m.piece
        IN  rights(heap') =
                rightsAfter(heap, type, pieceColor(m.piece),
                            own /\ Col(m.from) = 7, own /\ Col(m.from) = 0)]_vars

\* C10, amended: a king move clears both rights of its colour, a move of
\* any rook from a home corner square of its colour clears that side's
\* right, every other move leaves the four rights as they are; no step
\* sets a right that was cleared.
C10_RightsOnlyCleared ==
    /\ [][moveApplied =>
            LET m    == lastMove(state')
                type == heap'.type[m.piece]
                home == type = "rook" /\ Row(m.from) = homeRow(pieceColor(m.piece))
            IN  rights(heap') =
                    rightsAfter(heap, type, pieceColor(m.piece),
                                home /\ Col(m.from) = 7, home /\ Col(m.from) = 0)]_vars
    /\ [][\A i \in 1..4 : rights(heap')[i] => rights(heap)[i]]_vars

\* A rook that did not start on a1 has moved off a1 and cleared the right.
C10_Witness ==
    /\ op = "makeMove" /\ ret
    /\ Len(state.moveHistory) > 0
    /\ heap.type[lastMove(state).piece] = "rook"
    /\ lastMove(state).from = 56
    /\ lastMove(state).piece # 56
    /\ rights(heap) = <<FALSE, FALSE, TRUE, TRUE>>

\* C6: a call of getBestMove leaves the game as it was: the board, the side
\* to move, the history, the castling rights and the type of every piece.
C6_SearchLeavesGame ==
    [][op' = "getBestMove" => state' = state /\ heap' = heap]_vars

\* C7: a snapshot that getGameState returned keeps showing the board, the
\* piece types, the move history and the castling rights it showed when it
\* was taken, whatever moves the game makes afterwards.
C7_SnapshotIndependent ==
    snapshot.taken => shows(snapshot.obj, state, heap) = snapshot.shown

\* The Move is a pawn's advance of two ranks, read in heap h.
doubleAdvance(h, m) ==
    h.type[m.piece] = "pawn" /\ Abs(Row(m.to) - Row(m.from)) = 2

\* The square a Move of two ranks passes over.
passedOver(m) == Sq((Row(m.from) + Row(m.to)) \div 2, Col(m.from))

\* The step applies a pawn move that changes column onto an empty square.
enPassantApplied ==
    /\ moveApplied
    /\ heap.type[lastMove(state').piece] = "pawn"
    /\ Col(lastMove(state').to) # Col(lastMove(state').from)
    /\ state.board[lastMove(state').to] = Null

\* C11: the en-passant target is set exactly when the last applied move was
\* a pawn's advance of two ranks, and is then the square passed over; a
\* capture en passant is applied only as the move that follows the enemy
\* pawn's advance of two ranks, onto the square that pawn passed over.
C11_EnPassantTarget ==
    /\ [](IF Len(state.moveHistory) > 0 /\ doubleAdvance(heap, lastMove(state))
          THEN state.enPassantTarget = passedOver(lastMove(state))
          ELSE state.enPassantTarget = Null)
    /\ [][enPassantApplied =>
            /\ Len(state.moveHistory) > 0
            /\ doubleAdvance(heap, lastMove(state))
            /\ pieceColor(lastMove(state).piece) # pieceColor(lastMove(state').piece)
            /\ lastMove(state').to = passedOver(lastMove(state))]_vars

\* A capture en passant has just been applied.
C11_Witness ==
    /\ op = "makeMove" /\ ret
    /\ Len(state.moveHistory) > 1
    /\ lastMove(state).isEnPassant
    /\ doubleAdvance(heap, state.moveHistory[Len(state.moveHistory) - 1])
    /\ state.enPassantTarget = Null

\* C12: no pawn stands on row 0 or row 7, and the piece a pawn move puts on
\* the final rank is a queen of the mover's colour, its Move recorded with
\* promoteTo = queen.
C12_PromotionToQueen ==
    /\ [](\A s \in Squares :
            (state.board[s] # Null /\ Row(s) \in {0, 7}) =>
                heap.type[state.board[s]] # "pawn")
    /\ [][(moveApplied
           /\ heap.type[lastMove(state').piece] = "pawn"
           /\ Row(lastMove(state').to) \in {0, 7}) =>
              LET m == lastMove(state')
              IN  /\ state'.board[m.to] = m.piece
                  /\ heap'.type[m.piece] = "queen"
                  /\ pieceColor(state'.board[m.to]) = state.currentPlayer
                  /\ m.promoteTo = "queen"]_vars

\* A pawn has just moved to the final rank.
C12_Witness ==
    /\ op = "makeMove" /\ ret
    /\ Len(state.moveHistory) > 0
    /\ lastMove(state).promoteTo = "queen"
    /\ Row(lastMove(state).to) \in {0, 7}
    /\ lastMove(state).piece \in (8..15) \cup (48..55)


\* the square of the pawn an en-passant capture to `to` from `from` removes:
\* the mover's row, the destination's column
behind(from, to) == Sq(Row(from), Col(to))

enPassantCall ==
    /\ moveApplied
    /\ heap.type[lastMove(state').piece] = "pawn"
    /\ state.enPassantTarget # Null
    /\ lastMove(state').to = state.enPassantTarget

\* C20: when makeMove applies a pawn move onto the en-passant target, exactly
\* one piece leaves the board: the enemy pawn of the preceding two-square
\* advance, which stood directly behind the destination; the capturing pawn
\* ends on the target square, the Move is marked isEnPassant, and every other
\* square keeps its piece.
C20_EnPassantCapture ==
    [][enPassantCall =>
         LET m      == lastMove(state')
             victim == behind(m.from, m.to)
             prev   == lastMove(state)
         IN  /\ Len(state.moveHistory) > 0
             /\ doubleAdvance(heap, prev)
             /\ prev.to = victim
             /\ state.board[victim] = prev.piece
             /\ pieceColor(prev.piece) # pieceColor(m.piece)
             /\ heap.type[prev.piece] = "pawn"
             /\ Row(victim) = Row(m.to) + (IF pieceColor(m.piece) = "white" THEN 1 ELSE -1)
             /\ state'.board[victim] = Null
             /\ state'.board[m.to] = m.piece
             /\ state'.board[m.from] = Null
             /\ m.isEnPassant
             /\ pieceCount(state'.board) = pieceCount(state.board) - 1
             /\ \A s \in Squares \ {m.from, m.to, victim} :
                    state'.board[s] = state.board[s]]_vars

C20_Witness ==
    /\ op = "makeMove" /\ ret
    /\ Len(state.moveHistory) > 1
    /\ lastMove(state).isEnPassant
    /\ state.board[lastMove(state).to] = lastMove(state).piece
    /\ state.board[behind(lastMove(state).from, lastMove(state).to)] = Null
    /\ pieceCount(state.board) = 31


\* The opening position of chess, square by square: the piece types of row 0
\* and row 7 from column 0 to column 7.
openingTypeAt(s) ==
    CASE Row(s) \in {1, 6}       -> "pawn"
      [] Col(s) \in {0, 7}       -> "rook"
      [] Col(s) \in {1, 6}       -> "knight"
      [] Col(s) \in {2, 5}       -> "bishop"
      [] Col(s) = 3              -> "queen"
      [] OTHER                   -> "king"

\* C13: a newly constructed game, and a game after App.resetGame, is in the
\* initial state: pawns on rows 6 (white) and 1 (black), back ranks
\* R-N-B-Q-K-B-N-R on rows 7 and 0, every other square empty, White to move,
\* the four castling rights true, no en-passant target, an empty history and
\* the three status flags false.
C13_InitialState ==
    op \in {"new", "resetGame"} =>
        /\ \A s \in Squares :
              IF Row(s) \in {0, 1, 6, 7}
              THEN /\ state.board[s] # Null
                   /\ pieceColor(state.board[s]) = (IF Row(s) <= 1 THEN "black" ELSE "white")
                   /\ heap.type[state.board[s]] = openingTypeAt(s)
              ELSE state.board[s] = Null
        /\ \A s, t \in Squares :
              (s # t /\ state.board[s] # Null) => state.board[s] # state.board[t]
        /\ state.currentPlayer = "white"
        /\ heap.canCastleKingSide = [white |-> TRUE, black |-> TRUE]
        /\ heap.canCastleQueenSide = [white |-> TRUE, black |-> TRUE]
        /\ state.enPassantTarget = Null
        /\ state.moveHistory = <<>>
        /\ ~state.isCheck /\ ~state.isCheckmate /\ ~state.isStalemate

C13_Witness ==
    /\ op = "resetGame"
    /\ Len(state.moveHistory) = 0
    /\ state.currentPlayer = "white"



\* The minimax of the same game tree without the cut: the loop of minimax
\* with no break, every sibling searched.
RECURSIVE unpruned(_, _, _, _)
RECURSIVE unprunedLoop(_, _, _, _, _, _, _)

unprunedStep(g, h, move, depth, isMaximizing, eval) ==
    Let(applyMove(g, h, move), LAMBDA tempGame :
    Let(unpruned(tempGame.g, tempGame.h, depth - 1, ~isMaximizing), LAMBDA sub :
    [eval |-> IF isMaximizing THEN Max(eval, sub.value) ELSE Min(eval, sub.value),
     h    |-> sub.h]))

unprunedLoop(g, h, legalMoves, i, depth, isMaximizing, eval) ==
    IF i > Len(legalMoves) THEN [value |-> eval, h |-> h]
    ELSE Let(unprunedStep(g, h, legalMoves[i], depth, isMaximizing, eval),
             LAMBDA new :
                 unprunedLoop(g, new.h, legalMoves, i + 1, depth, isMaximizing, new.eval))

unpruned(g, h, depth, isMaximizing) ==
    IF depth = 0 \/ g.isCheckmate \/ g.isStalemate
    THEN [value |-> evaluatePosition(h, getGameState(g).board), h |-> h]
    ELSE Let(getAllLegalMoves(g, h, IF isMaximizing THEN "black" ELSE "white"),
             LAMBDA legalMoves :
                 unprunedLoop(g, h, legalMoves, 1, depth, isMaximizing,
                              IF isMaximizing THEN 0 - Infinity ELSE Infinity))

\* The values the unpruned minimax gives the root moves, in their order.
RECURSIVE unprunedValues(_, _, _, _)
unprunedValues(g, h, legalMoves, i) ==
    IF i > Len(legalMoves) THEN <<>>
    ELSE
    Let(applyMove(g, h, legalMoves[i]), LAMBDA tempGame :
    Let(unpruned(tempGame.g, tempGame.h, maxDepth - 1, FALSE), LAMBDA sub :
        <<sub.value>> \o unprunedValues(g, sub.h, legalMoves, i + 1)))

\* The values of the root moves as getBestMove computes them.
prunedValues(g, h, legalMoves) ==
    Let(rootCalls(g, h, legalMoves, 1), LAMBDA calls :
        [i \in 1..Len(calls) |-> calls[i].value])

\* The greatest element of a non-empty sequence of numbers.
greatest(values) == CHOOSE v \in {values[i] : i \in 1..Len(values)} :
                        \A i \in 1..Len(values) : values[i] <= v

\* The iterations of the loop of a getBestMove call that is being made.
searchCalled == op' = "getBestMove"

\* C14: on every position App.makeAIMove calls getBestMove on, the value the alpha-beta
\* minimax gives each root move, and so the value of the best move, is the
\* value the unpruned minimax gives it over the same position and depth.
C14_PruningKeepsValues ==
    [][op' = "makeAIMove" =>
         Let(getAllLegalMoves(state, heap, "black"), LAMBDA legalMoves :
         Let(prunedValues(state, heap, legalMoves), LAMBDA pruned :
         Let(unprunedValues(state, heap, legalMoves, 1), LAMBDA full :
             /\ pruned = full
             /\ Len(legalMoves) > 0 => greatest(pruned) = greatest(full))))]_vars


\* Black is to move and one of its legal moves, made with makeMove, sets
\* isCheckmate.
mateInOne(g, h) ==
    /\ g.currentPlayer = "black"
    /\ \E from \in Squares :
           LET moves == getPossibleMoves(g, h, from)
           IN  \E i \in 1..Len(moves) : makeMove(g, h, from, moves[i]).g.isCheckmate

\* C15: when Black to move has a move that checkmates at once, the move
\* getBestMove returns, applied with makeMove, leaves isCheckmate true.
C15_MateInOneFound ==
    [][(op' = "makeAIMove" /\ mateInOne(state, heap)) =>
           (aiMove' # noMove /\ ret' /\ state'.isCheckmate)]_vars

\* getBestMove has just returned.
searchReturned == op = "getBestMove"

\* C16: whenever getBestMove returns none, the game's state has isCheckmate
\* or isStalemate set; equivalently, on a game that is in neither, it returns
\* a Move.
C16_NoneOnlyWhenOver ==
    (searchReturned /\ aiMove = noMove) => (state.isCheckmate \/ state.isStalemate)

\* C17: every Move getBestMove returns is legal in the game when it is
\* returned: its destination is among getPossibleMoves(move.from), and the
\* caller's applyMove succeeds, switches the side to move and appends a Move.
C17_ReturnedMoveLegal ==
    (searchReturned /\ aiMove # noMove) =>
        /\ InSeq(aiMove.to, getPossibleMoves(state, heap, aiMove.from))
        /\ LET r == makeMove(state, heap, aiMove.from, aiMove.to)
           IN  /\ r.ok
               /\ r.g.currentPlayer # state.currentPlayer
               /\ Len(r.g.moveHistory) = Len(state.moveHistory) + 1

\* C18: for each minimax call that getBestMove makes, the move applied to the
\* copy has succeeded, the side implied by isMaximizing = false (white) is
\* the currentPlayer of the state searched, and a state that is not
\* checkmate or stalemate is not given +Infinity or -Infinity.
C18_SearchedSideToMove ==
    [][searchCalled =>
         Let(rootCalls(state, heap, getAllLegalMoves(state, heap, "black"), 1),
             LAMBDA calls :
                 \A i \in 1..Len(calls) :
                     /\ calls[i].applied
                     /\ calls[i].tempGame.currentPlayer = "white"
                     /\ (~calls[i].tempGame.isCheckmate /\ ~calls[i].tempGame.isStalemate)
                            => calls[i].value \notin {Infinity, 0 - Infinity})]_vars

\* C19: getBestMove returns the first move, in the order of getAllLegalMoves,
\* among those of the greatest score, and a call that follows another on the
\* same position returns the same move.
C19_FirstOfGreatest ==
    [][searchCalled =>
         /\ Let(rootCalls(state, heap, getAllLegalMoves(state, heap, "black"), 1),
                LAMBDA calls :
                    \A i \in 1..Len(calls) :
                        ((\A j \in 1..Len(calls) : calls[j].value <= calls[i].value)
                         /\ (\A j \in 1..(i - 1) : calls[j].value < calls[i].value))
                            => aiMove' = calls[i].move)
         /\ searchReturned => aiMove' = aiMove]_vars


\* The pairs (origin, destination) getAllLegalMoves is to list for a colour.
legalPairs(g, h, color) ==
    UNION {Let(getPossibleMoves(g, h, from), LAMBDA possibleMoves :
               {<<from, possibleMoves[i]>> : i \in 1..Len(possibleMoves)}) :
           from \in {s \in Squares : /\ g.board[s] # Null
                                     /\ pieceColor(g.board[s]) = color}}

\* A list of Moves is the list of the given pairs, each once, by origin
\* square in row-major order, each Move with the piece that stands on its
\* origin and the piece, if any, that stands on its destination.
listsPairs(g, moves, pairs) ==
    /\ {<<moves[i].from, moves[i].to>> : i \in 1..Len(moves)} = pairs
    /\ Len(moves) = Cardinality(pairs)
    /\ \A i \in 1..Len(moves) :
           /\ moves[i].piece = g.board[moves[i].from]
           /\ moves[i].capturedPiece = g.board[moves[i].to]
    /\ \A i, j \in 1..Len(moves) : i < j => moves[i].from <= moves[j].from

\* C21: getAllLegalMoves(color) returns one Move for each pair of a square
\* holding a piece of color and a destination in getPossibleMoves of that
\* square, in row-major order of the origin squares, and the empty list when
\* color is not the side to move.
C21_AllLegalMoves ==
    \A color \in {"white", "black"} :
        Let(getAllLegalMoves(state, heap, color), LAMBDA moves :
            /\ listsPairs(state, moves, legalPairs(state, heap, color))
            /\ color # state.currentPlayer => moves = <<>>)

C21_Witness ==
    /\ Len(state.moveHistory) > 1
    /\ Let(getAllLegalMoves(state, heap, state.currentPlayer), LAMBDA moves :
           /\ Len(moves) > 1
           /\ \E i \in 1..Len(moves) : moves[i].capturedPiece # Null
           /\ \E i, j \in 1..Len(moves) : moves[i].from < moves[j].from)


\* The squares of a board that hold a king of a colour.
kingSquares(board, type, color) ==
    {s \in Squares : /\ board[s] # Null
                     /\ pieceColor(board[s]) = color
                     /\ type[board[s]] = "king"}

\* C22: in every state reached by accepted makeMove calls the board holds
\* exactly one white king and exactly one black king.
C22_BothKingsOnBoard ==
    \A color \in {"white", "black"} :
        Cardinality(kingSquares(state.board, heap.type, color)) = 1


\* The game is over: updateGameStatus has set one of the two final flags.
gameOver(g) == g.isCheckmate \/ g.isStalemate

\* C23: once isCheckmate or isStalemate is true, every later makeMove returns
\* false and neither the state nor the objects it refers to change, until
\* the game is reset.
C23_GameOverAbsorbing ==
    [][gameOver(state) /\ op' # "resetGame" =>
           /\ op' = "makeMove" => ~ret'
           /\ state' = state
           /\ heap' = heap]_vars

\* A makeMove call has been rejected in a game that is over.
C23_Witness ==
    /\ state.isStalemate
    /\ op = "makeMove"
    /\ ~ret


\* The entries of a history that record a captured piece.
captures(moveHistory) ==
    {i \in 1..Len(moveHistory) : moveHistory[i].capturedPiece # Null}

\* C24: the number of pieces on the board is 32 minus the number of history
\* entries that record a captured piece.
C24_BoardMatchesHistory ==
    pieceCount(state.board) = 32 - Cardinality(captures(state.moveHistory))


\* The frames of the stack descend by one in depth from maxDepth, the depth
\* of getBestMove's own frame, down to 0 at most; a frame that is at depth 0
\* or holds a game that is over makes no call; and every frame's loop index
\* is within its move list or one past it.
searchBounded ==
    /\ Len(stack) <= maxDepth + 1
    /\ \A k \in 1..Len(stack) :
           /\ stack[k].depth = maxDepth - (k - 1)
           /\ stack[k].kind = (IF k = 1 THEN "getBestMove" ELSE "minimax")
           /\ stack[k].i \in 1..(Len(stack[k].legalMoves) + 1)
           /\ (k > 1 /\ k < Len(stack)) =>
                  /\ stack[k].depth > 0
                  /\ ~gameOver(stack[k].g)
                  /\ stack[k].i <= Len(stack[k].legalMoves)

\* C25: every call of getBestMove terminates: each recursion of minimax is one
\* less in depth, starting from maxDepth - 1, no call is made at depth 0 or
\* in a game that is over, every loop runs over a finite move list, and a
\* search that is running comes to its return.
C25_SearchTerminates ==
    /\ []searchBounded
    /\ (stack # <<>>) ~> (stack = <<>> /\ op = "getBestMove")

\* A search has returned a move after running through the full depth.
C25_Witness ==
    /\ op = "getBestMove"
    /\ stack = <<>>
    /\ aiMove # noMove


\* The colour that made the i-th move of a history.
mover(moveHistory, i) == pieceColor(moveHistory[i].piece)

\* The step applies a move to the game: the history is one entry longer.
applies ==
    /\ Len(state'.moveHistory) = Len(state.moveHistory) + 1
    /\ SubSeq(state'.moveHistory, 1, Len(state.moveHistory)) = state.moveHistory

\* The game is as it was: its state and the objects it refers to.
gameUnchanged == state' = state /\ heap' = heap

\* The moves of the history are White's and Black's in turn, White's first.
alternates(moveHistory) ==
    \A i \in 1..Len(moveHistory) :
        mover(moveHistory, i) = (IF i % 2 = 1 THEN "white" ELSE "black")

\* The callback that fires was set by a timer of an earlier game, or of
\* this game for a move of White that Black has answered since.
duplicateOrStale ==
    /\ app.callbacks # <<>>
    /\ \/ Head(app.callbacks).game # app.game
       \/ Head(app.callbacks).at < Len(state.moveHistory)

====
